---- MODULE Spec2Model ----
(***************************************************************************)
(* A model of the genetic-algorithm engine of src/ga.h (ga::Genom and      *)
(* ga::GenePool), instantiated as in src/tests/max_integer.cpp with the    *)
(* integer nucleotide IntNucl, the Scorer holding one float and the        *)
(* Simulator that rewards a nucleotide sum equal to a target.              *)
(*                                                                         *)
(* Indices stored in shuffle_indices are the 0-based values of the code;   *)
(* TLA+ sequences are 1-based, so genoms[k] of the code is genoms[k + 1].  *)
(* A float score is kept as the exact fraction num/den it was computed     *)
(* from (10/1, 1/d or the default 0/1).  The random engine is a source of  *)
(* arbitrary draws: every value a distribution can return is a successor.  *)
(***************************************************************************)
EXTENDS Integers, Sequences, FiniteSets, TLC

VARIABLES
    n_genoms,         \* GenePool::n_genoms
    genom_len,        \* the upper end of GenePool::distr, the length of a genom
    take,             \* GenePool::take
    genoms,           \* GenePool::genoms
    next_generation,  \* GenePool::next_generation
    shuffle_indices,  \* GenePool::shuffle_indices
    generation,       \* GenePool::generation
    aborted,          \* the process died on an out-of-bounds access
    lastOp,           \* history: the last call that returned
    simulated,        \* history: some simulate() has completed on this pool
    scored,           \* history: no select() or shift() was called since the last simulate()
    completed,        \* history: simulate() calls completed since construction or reset()
    selects,          \* history: select() calls completed
    parents,          \* history: population indices used as crossover parents by the last select()
    calls,            \* history: the crossover and mutate calls of the select() that just returned
    shiftBase,        \* history: the nucleotides when the current run of shift(1) calls began
    shiftRun,         \* history: the number of consecutive shift(1) calls since then
    xin,              \* crossover scenario: the genoms a, b, out and the nucleotide crossover used
    xout,             \* crossover scenario: the results of the two calls compared
    pc,               \* position in TEST(GetMaxInteger, BasicTest); "free" for an arbitrary caller
    round             \* the loop variable i of the test

poolVars == <<n_genoms, genom_len, take, genoms, next_generation, shuffle_indices,
              generation, aborted>>
histVars == <<lastOp, simulated, scored, completed, selects, parents, calls, shiftBase,
              shiftRun>>
crossVars == <<xin, xout>>
testVars == <<pc, round>>
vars == <<poolVars, histVars, crossVars, testVars>>

----------------------------------------------------------------------------
(* Bounds of the model *)

\* cap on |value| of a nucleotide: draws that would take a value past it are left out
MaxVal == 1
\* cap on the generation counter (simulate() is not called beyond it)
MaxGen == 2
\* cap on the number of select() calls of one run
MaxSelects == 2
\* the Simulator's target sum (max_ of the test, 6 there)
Target == 1
\* the number of rounds of the test's loop (100 there)
Rounds == 2

\* the pools constructed: <<genoms_count, genom_len>>
Configs == {<<2, 1>>, <<2, 2>>, <<4, 1>>}
\* elite fractions take_value, as <<numerator, denominator>>
Fractions == {<<3, 10>>, <<1, 2>>, <<3, 4>>}
\* the values of the test's dist (uniform_int_distribution(-5, 5) there)
Dist == 0 .. 1

----------------------------------------------------------------------------
(* Scorer and Simulator of the test *)

Abs(x) == IF x < 0 THEN 0 - x ELSE x

\* C++ integer division by 2 truncates toward zero
Half(x) == IF x < 0 THEN 0 - ((0 - x) \div 2) ELSE x \div 2

\* Scorer() : score(0)
DefaultScorer == [num |-> 0, den |-> 1]

\* a < b on the scores num/den (den > 0)
ScoreLess(s, t) == s.num * t.den < t.num * s.den

RECURSIVE SumSeq(_)
SumSeq(s) == IF s = <<>> THEN 0 ELSE Head(s) + SumSeq(Tail(s))

\* Simulator::get_value
GetValue(g) == SumSeq(g.nucleotides)

\* variant of Fitness: the target missed by one
FitnessOffByOne(g) ==
    IF GetValue(g) = Target + 1 THEN [num |-> 10, den |-> 1]
    ELSE [num |-> 1, den |-> Abs(GetValue(g) - (Target + 1))]

\* the Scorer Simulator::simulate assigns: 10 at the target, 1/|m - max_| elsewhere
Fitness(g) ==
    IF GetValue(g) = Target THEN [num |-> 10, den |-> 1]
    ELSE [num |-> 1, den |-> Abs(GetValue(g) - Target)]

----------------------------------------------------------------------------
(* Genom *)

\* a default-constructed Genom: no nucleotides, default scorer
DefaultGenom == [nucleotides |-> <<>>, scorer |-> DefaultScorer]

\* Genom::random: n nucleotides drawn from dist, default scorer
RandomGenoms(n) == {[nucleotides |-> s, scorer |-> DefaultScorer] : s \in [1 .. n -> Dist]}

\* IntNucl::crossover_inplace ("avg"); "sub" is a non-commutative nucleotide crossover
NuclCrossover(kind, a, b) == IF kind = "avg" THEN Half(a + b) ELSE a - b

\* variant of CrossoverInplace: the second loop keeps the argument order (a, b)
CrossoverNoSwap(kind, a, b, c, n) ==
    [c EXCEPT !.nucleotides =
        [i \in 1 .. Len(a.nucleotides) |-> NuclCrossover(kind, a.nucleotides[i], b.nucleotides[i])]]

\* variant of CrossoverInplace: the child is resized to the crossover point n
CrossoverResizeToPoint(kind, a, b, c, n) ==
    [c EXCEPT !.nucleotides =
        [i \in 1 .. n |-> NuclCrossover(kind, a.nucleotides[i], b.nucleotides[i])]]

\* variant of CrossoverInplace: the child also takes the scorer of its first parent
CrossoverCopiesScorer(kind, a, b, c, n) ==
    [nucleotides |->
        [i \in 1 .. Len(a.nucleotides) |->
            IF i <= n
            THEN NuclCrossover(kind, a.nucleotides[i], b.nucleotides[i])
            ELSE NuclCrossover(kind, b.nucleotides[i], a.nucleotides[i])],
     scorer |-> a.scorer]

\* Genom::crossover_inplace(a, b, c, n): the value of *c afterwards.
\* Position i of the code is position i + 1 here: i < n is i + 1 <= n.
CrossoverInplace(kind, a, b, c, n) ==
    [c EXCEPT !.nucleotides =
        [i \in 1 .. Len(a.nucleotides) |->
            IF i <= n
            THEN NuclCrossover(kind, a.nucleotides[i], b.nucleotides[i])
            ELSE NuclCrossover(kind, b.nucleotides[i], a.nucleotides[i])]]

\* Genom::mutate(n, rng) for n < size(): IntNucl::mutate adds the draw d
Mutate(g, n, d) == [g EXCEPT !.nucleotides[n + 1] = @ + d]

\* variant of ShiftGenom: the rotation goes to the right
ShiftRight(g, n) ==
    LET len == Len(g.nucleotides) IN
    [g EXCEPT !.nucleotides =
        [i \in 1 .. len |-> g.nucleotides[((i - 1 + len - n) % len) + 1]]]

\* Genom::shift(n), 0 <= n <= size(): std::rotate to the left by n
ShiftGenom(g, n) ==
    LET len == Len(g.nucleotides) IN
    [g EXCEPT !.nucleotides =
        [i \in 1 .. len |-> g.nucleotides[((i - 1 + n) % len) + 1]]]

----------------------------------------------------------------------------
(* Helpers for the standard algorithms *)

\* variant of Shuffle: the offset is dropped, std::shuffle(s.begin(), s.end(), rng)
ShuffleFromBegin(s, k) ==
    {[i \in 1 .. Len(s) |-> s[p[i]]] : p \in Permutations(1 .. Len(s))}

\* the arrangements of s that keep its first k elements in place:
\* the results std::shuffle(s.begin() + k, s.end(), rng) can leave in s
Shuffle(s, k) ==
    {[i \in 1 .. Len(s) |-> IF i <= k THEN s[i] ELSE s[p[i]]] :
        p \in Permutations((k + 1) .. Len(s))}

\* s read through reverse iterators
Reverse(s) == [i \in 1 .. Len(s) |-> s[Len(s) + 1 - i]]

\* s is ordered by Genom::operator<: no element is less than one before it
Ascending(s) ==
    \A i, j \in 1 .. Len(s) : i < j => ~ScoreLess(s[j].scorer, s[i].scorer)

\* variant of SortReverse: std::sort(s.begin(), s.end())
SortForward(s) == {t \in Shuffle(s, 0) : Ascending(t)}

\* std::sort(s.rbegin(), s.rend()): s rearranged so that its reverse is ascending
\* (std::sort is not stable: equal scores may end in any order)
SortReverse(s) == {t \in Shuffle(s, 0) : Ascending(Reverse(t))}

\* variant of ResizeGenoms: n genoms are appended, as the push_back of lines 261-263 would
ResizeByPushBack(s, n) == s \o [i \in 1 .. n |-> DefaultGenom]

\* vector::resize on a vector of genoms (new elements are default genoms)
ResizeGenoms(s, n) == [i \in 1 .. n |-> IF i <= Len(s) THEN s[i] ELSE DefaultGenom]

----------------------------------------------------------------------------
(* GenePool *)

\* take(genoms_count * take_value): the product truncated to size_t
TakeOf(n, f) == (n * f[1]) \div f[2]

\* variant of IdentityIndices: the indices count from one
IdentityIndicesFromOne(n) == [i \in 1 .. n |-> i]

\* the loop of lines 217-219: shuffle_indices[i] = i
IdentityIndices(n) == [i \in 1 .. n |-> i - 1]

\* the pools the constructor can build
InitPool ==
    \E c \in Configs, f \in Fractions :
        /\ n_genoms = c[1]
        /\ genom_len = c[2]
        /\ take = TakeOf(c[1], f)
        /\ genoms \in [1 .. c[1] -> RandomGenoms(c[2])]
        /\ shuffle_indices = IdentityIndices(c[1])
        /\ next_generation = <<>>
        /\ generation = 0
        /\ aborted = FALSE

\* the log of a call other than select(): no crossover, no mutation
NoCalls == [crossover |-> <<>>, mutate |-> <<>>]

\* no call has been made yet
InitHist ==
    /\ lastOp = "new"
    /\ simulated = FALSE
    /\ scored = FALSE
    /\ completed = 0
    /\ selects = 0
    /\ parents = {}
    /\ calls = NoCalls
    /\ shiftBase = [i \in 1 .. Len(genoms) |-> genoms[i].nucleotides]
    /\ shiftRun = 0

\* the history kept by a call op that is not shift(1)
Note(op) ==
    /\ lastOp' = op
    /\ shiftBase' = [i \in 1 .. Len(genoms') |-> genoms'[i].nucleotides]
    /\ shiftRun' = 0

\* variant of SimulateGenom: the simulator scores a copy of the genom
SimulateGenomByValue(g) == g

\* Simulator::simulate(genom)
SimulateGenom(g) == [g EXCEPT !.scorer = Fitness(g)]

\* variant of Incremented: the counter advances by two
IncrementedTwice(n) == n + 2

\* generation++
Incremented(n) == n + 1

\* GenePool::simulate
DoSimulate ==
    /\ ~aborted
    /\ genoms' \in SortReverse([i \in 1 .. Len(genoms) |-> SimulateGenom(genoms[i])])
    /\ generation' = Incremented(generation)
    /\ UNCHANGED <<n_genoms, genom_len, take, next_generation, shuffle_indices, aborted>>
    /\ Note("simulate")
    /\ simulated' = TRUE
    /\ scored' = TRUE
    /\ completed' = completed + 1
    /\ calls' = NoCalls
    /\ UNCHANGED <<selects, parents>>

\* variant of FailedAt: the genoms scored so far are sorted before the failure leaves
FailedAtSorted(gs, k) ==
    SortReverse([i \in 1 .. Len(gs) |-> IF i < k THEN SimulateGenom(gs[i]) ELSE gs[i]])

\* The populations the loop of simulate() leaves when simulator.simulate(genom) fails
\* on the k-th genom (genoms[k - 1] of the code) before it assigns a scorer: the
\* genoms before it have been scored, and the exception leaves simulate() at once.
FailedAt(gs, k) ==
    {[i \in 1 .. Len(gs) |-> IF i < k THEN SimulateGenom(gs[i]) ELSE gs[i]]}

\* GenePool::simulate with a simulator that fails on some genom
DoSimulateFails ==
    /\ ~aborted
    /\ \E k \in 1 .. Len(genoms) : genoms' \in FailedAt(genoms, k)
    /\ UNCHANGED <<n_genoms, genom_len, take, next_generation, shuffle_indices,
                   generation, aborted>>
    /\ Note("simulate_failed")
    /\ scored' = FALSE
    /\ calls' = NoCalls
    /\ UNCHANGED <<simulated, completed, selects, parents>>

\* GenePool::shift(n), 0 <= n <= genom_len
DoShift ==
    /\ ~aborted
    /\ \E n \in 0 .. genom_len :
        /\ genoms' = [i \in 1 .. Len(genoms) |-> ShiftGenom(genoms[i], n)]
        /\ IF n = 1 /\ shiftRun < genom_len
           THEN /\ shiftRun' = shiftRun + 1
                /\ UNCHANGED shiftBase
           ELSE /\ shiftRun' = IF n = 1 THEN 1 ELSE 0
                /\ shiftBase' = [i \in 1 .. Len(genoms) |->
                                    IF n = 1 THEN genoms[i].nucleotides
                                    ELSE genoms'[i].nucleotides]
    /\ lastOp' = "shift"
    /\ scored' = FALSE
    /\ UNCHANGED <<n_genoms, genom_len, take, next_generation, shuffle_indices,
                   generation, aborted>>
    /\ calls' = NoCalls
    /\ UNCHANGED <<simulated, completed, selects, parents>>

\* generation = 0
ResetValue(n) == 0

\* GenePool::reset
DoReset ==
    /\ ~aborted
    /\ generation' = ResetValue(generation)
    /\ UNCHANGED <<n_genoms, genom_len, take, genoms, next_generation, shuffle_indices,
                   aborted>>
    /\ Note("reset")
    /\ completed' = 0
    /\ calls' = NoCalls
    /\ UNCHANGED <<simulated, scored, selects, parents>>

\* GenePool::best
Best == genoms[1]

\* n_genoms / 2
HalfOf(n) == n \div 2

\* the values distr(rng) can return: distr(0, genom_len) is uniform on the closed
\* range [0, genom_len]
DistrValues == 0 .. genom_len

\* variant of Duplicate: the loop is left out
DuplicateNothing(idx, half) == idx

\* the loop of lines 250-251: slots [half, 2*half) receive a copy of slots [0, half)
Duplicate(idx, half) ==
    [i \in 1 .. Len(idx) |-> IF half < i /\ i <= 2 * half THEN idx[i - half] ELSE idx[i]]

\* variant of CrossoverCall: the second pass writes slot i as the first does
CrossoverCallSameSlot(idx, k, off) ==
    [slot |-> k, child |-> k,
     first |-> idx[k], second |-> idx[k + HalfOf(Len(idx))]]

\* Iteration i (k = i + 1) of a crossover pass with offset off (0, line 259, or half,
\* line 269): the index slot read for the first parent, the staging slot written, and
\* the population indices idx[i] and idx[i + half] of the two parents.
CrossoverCall(idx, k, off) ==
    [slot |-> k, child |-> k + off,
     first |-> idx[k], second |-> idx[k + HalfOf(Len(idx))]]

\* the crossover calls of both passes, in order: idx1 is the index array during the
\* first pass, idx2 during the second
CrossoverCalls(idx1, idx2, half) ==
    [k \in 1 .. half |-> CrossoverCall(idx1, k, 0)]
    \o [k \in 1 .. half |-> CrossoverCall(idx2, k, half)]

\* the staging slots the loop of lines 275-276 calls mutate on, in order
MutateCalls(ng) == [k \in 1 .. Len(ng) |-> k]

\* The staging buffers a crossover pass of select() can leave, over every crossover
\* point distr(rng) can return, after its first k iterations: iteration i (k = i + 1)
\* crosses genoms[idx[i]] with genoms[idx[i + half]] into ng[i + off].
RECURSIVE CrossoverPass(_, _, _, _, _)
CrossoverPass(gs, idx, ng, off, k) ==
    IF k = 0 THEN {ng}
    ELSE LET call == CrossoverCall(idx, k, off) IN
         UNION {
            {[prev EXCEPT ![call.child] =
                  CrossoverInplace("avg", gs[call.first + 1], gs[call.second + 1],
                                   prev[call.child], n)] :
                n \in DistrValues} :
            prev \in CrossoverPass(gs, idx, ng, off, k - 1)}

\* genom.mutate(n, rng) writes outside the vector: n is no index of g's nucleotides.
\* (A child has the size of its first parent, line 99.)
MutateOutOfBounds(g, n) == n >= Len(g.nucleotides)

\* What genom.mutate(distr(rng), rng) can leave in g, over every index n and every
\* draw d.  For an n out of bounds the behaviour is undefined: either the write
\* nucleotides[n] falls outside the vector and the genom is left as it was, or the
\* process dies (the second disjunct of DoSelect).
MutateChoices(g) ==
    {Mutate(g, x[1], x[2]) :
        x \in {y \in DistrValues \X Dist :
                  /\ ~MutateOutOfBounds(g, y[1])
                  /\ Abs(g.nucleotides[y[1] + 1] + y[2]) <= MaxVal}}
    \cup {g : n \in {m \in DistrValues : MutateOutOfBounds(g, m)}}

\* The staging buffers the mutation loop of lines 275-276 can leave after its first
\* k iterations.
RECURSIVE MutateLoop(_, _)
MutateLoop(ng, k) ==
    IF k = 0 THEN {ng}
    ELSE UNION {
        {[prev EXCEPT ![k] = m] : m \in MutateChoices(prev[k])} :
        prev \in MutateLoop(ng, k - 1)}

\* The process dies on the out-of-bounds write: no engine state is left to observe.
Abort ==
    /\ aborted' = TRUE
    /\ genoms' = <<>>
    /\ next_generation' = <<>>
    /\ shuffle_indices' = <<>>
    /\ generation' = 0
    /\ UNCHANGED <<n_genoms, genom_len, take>>
    /\ lastOp' = "abort"
    /\ simulated' = FALSE
    /\ scored' = FALSE
    /\ completed' = 0
    /\ selects' = 0
    /\ parents' = {}
    /\ calls' = NoCalls
    /\ shiftBase' = <<>>
    /\ shiftRun' = 0

\* variant of SwapBuffers: genoms = next_generation, a copy in place of the swap
CopyBuffers(pop, staged) == [genoms |-> staged, next_generation |-> staged]

\* std::swap(genoms, next_generation) on a population pop and a staging buffer staged
SwapBuffers(pop, staged) == [genoms |-> staged, next_generation |-> pop]

\* the population indices a crossover pass reads through idx
ParentsOf(idx, half) == {idx[i] : i \in 1 .. half} \cup {idx[i + half] : i \in 1 .. half}

\* GenePool::select
DoSelect ==
    /\ ~aborted
    /\ LET half == HalfOf(n_genoms) IN
       \/ \E s1 \in {Duplicate(s, half) : s \in Shuffle(shuffle_indices, take)} :
          \E s2 \in Shuffle(s1, half) :
          \E ng1 \in CrossoverPass(genoms, s2, ResizeGenoms(next_generation, n_genoms),
                                   0, half) :
          \E s3 \in Shuffle(s2, half) :
          \E ng2 \in CrossoverPass(genoms, s3, ng1, half, half) :
          \E r \in MutateLoop(ng2, Len(ng2)) :
             /\ genoms' = SwapBuffers(genoms, r).genoms
             /\ next_generation' = SwapBuffers(genoms, r).next_generation
             /\ shuffle_indices' = s3
             /\ parents' = ParentsOf(s2, half) \cup ParentsOf(s3, half)
             /\ calls' = [crossover |-> CrossoverCalls(s2, s3, half),
                          mutate |-> MutateCalls(ng2)]
             /\ selects' = selects + 1
             /\ Note("select")
             /\ UNCHANGED <<n_genoms, genom_len, take, generation, aborted>>
             /\ scored' = FALSE
             /\ UNCHANGED <<simulated, completed>>
       \/ /\ \E i \in 1 .. half, n \in DistrValues :
                MutateOutOfBounds(genoms[shuffle_indices[i] + 1], n)
          /\ Abort

----------------------------------------------------------------------------
(* An arbitrary caller of one pool *)

Init ==
    /\ InitPool
    /\ InitHist
    /\ xin = <<>>
    /\ xout = <<>>
    /\ pc = "free"
    /\ round = 0

Simulate == generation < MaxGen /\ DoSimulate /\ UNCHANGED <<crossVars, testVars>>
Select == selects < MaxSelects /\ DoSelect /\ UNCHANGED <<crossVars, testVars>>
Shift == DoShift /\ UNCHANGED <<crossVars, testVars>>
Reset == DoReset /\ UNCHANGED <<crossVars, testVars>>

Next == Simulate \/ Select \/ Shift \/ Reset

Spec == Init /\ [][Next]_vars

----------------------------------------------------------------------------
(* Genom::crossover_inplace on its own: the two boundary calls on one pair *)

\* the nucleotide values of the pairs crossed
CrossVals == -1 .. 1
\* the lengths of the pairs crossed
CrossLens == 0 .. 2

GenomsOfLen(len) ==
    {[nucleotides |-> s, scorer |-> DefaultScorer] : s \in [1 .. len -> CrossVals]}

InitCross ==
    /\ n_genoms = 0
    /\ genom_len = 0
    /\ take = 0
    /\ genoms = <<>>
    /\ shuffle_indices = <<>>
    /\ next_generation = <<>>
    /\ generation = 0
    /\ aborted = FALSE
    /\ InitHist
    /\ \E len \in CrossLens, kind \in {"avg", "sub"} :
       \E a \in GenomsOfLen(len), b \in GenomsOfLen(len) :
       \E out \in {DefaultGenom} \cup GenomsOfLen(1) :
          xin = [kind |-> kind, a |-> a, b |-> b, out |-> out]
    /\ xout = [ab |-> {}, ba |-> {}]
    /\ pc = "cross"
    /\ round = 0

\* crossover_inplace(a, b, out, 0)
CrossAtZero ==
    /\ pc = "cross"
    /\ xout.ab = {}
    /\ xout' = [xout EXCEPT !.ab = {CrossoverInplace(xin.kind, xin.a, xin.b, xin.out, 0)}]
    /\ UNCHANGED <<poolVars, histVars, xin, testVars>>

\* crossover_inplace(b, a, out, len)
CrossAtLen ==
    /\ pc = "cross"
    /\ xout.ba = {}
    /\ xout' = [xout EXCEPT !.ba = {CrossoverInplace(xin.kind, xin.b, xin.a, xin.out,
                                                     Len(xin.a.nucleotides))}]
    /\ UNCHANGED <<poolVars, histVars, xin, testVars>>

NextCross == CrossAtZero \/ CrossAtLen

SpecCross == InitCross /\ [][NextCross]_vars

----------------------------------------------------------------------------
(* GenePool::shift on pools of longer genoms (no select()) *)

\* the pools constructed: <<genoms_count, genom_len>>
ShiftConfigs == {<<2, 1>>, <<2, 2>>, <<2, 3>>}

InitShift ==
    /\ \E c \in ShiftConfigs, f \in Fractions :
        /\ n_genoms = c[1]
        /\ genom_len = c[2]
        /\ take = TakeOf(c[1], f)
        /\ genoms \in [1 .. c[1] -> RandomGenoms(c[2])]
        /\ shuffle_indices = IdentityIndices(c[1])
        /\ next_generation = <<>>
        /\ generation = 0
        /\ aborted = FALSE
    /\ InitHist
    /\ xin = <<>>
    /\ xout = <<>>
    /\ pc = "free"
    /\ round = 0

NextShift == Simulate \/ Shift \/ Reset

SpecShift == InitShift /\ [][NextShift]_vars

----------------------------------------------------------------------------
(* TEST(GetMaxInteger, BasicTest), lines 87-109 of the test *)

\* the pool of the test: <<genoms_count, genom_len>> and take_value (10, 7 and 0.3 there)
TestConfig == <<4, 1>>
TestFraction == <<3, 10>>

InitTest ==
    /\ n_genoms = TestConfig[1]
    /\ genom_len = TestConfig[2]
    /\ take = TakeOf(TestConfig[1], TestFraction)
    /\ genoms \in [1 .. TestConfig[1] -> RandomGenoms(TestConfig[2])]
    /\ shuffle_indices = IdentityIndices(TestConfig[1])
    /\ next_generation = <<>>
    /\ generation = 0
    /\ aborted = FALSE
    /\ InitHist
    /\ xin = <<>>
    /\ xout = <<>>
    /\ pc = "start"
    /\ round = 0

\* the score the test compares best() with: 10.0f
IsTen(sc) == sc.num = 10 * sc.den

\* line 94: pool.simulate(sim)
TestFirstSimulate ==
    /\ pc = "start"
    /\ DoSimulate
    /\ pc' = "loop"
    /\ UNCHANGED <<round, crossVars>>

\* line 98: pool.select()
TestSelect ==
    /\ pc = "loop"
    /\ round < Rounds
    /\ DoSelect
    /\ pc' = IF aborted' THEN "dead" ELSE "selected"
    /\ UNCHANGED <<round, crossVars>>

\* lines 99-102 and the ++i: pool.simulate(sim), then break when best() scores 10
TestSimulate ==
    /\ pc = "selected"
    /\ DoSimulate
    /\ IF IsTen(genoms'[1].scorer)
       THEN pc' = "broke" /\ UNCHANGED round
       ELSE pc' = "loop" /\ round' = round + 1
    /\ UNCHANGED crossVars

\* line 97: i < 100 fails
TestExhausted ==
    /\ pc = "loop"
    /\ round = Rounds
    /\ pc' = "exhausted"
    /\ UNCHANGED <<poolVars, histVars, crossVars, round>>

NextTest == TestFirstSimulate \/ TestSelect \/ TestSimulate \/ TestExhausted

SpecTest == InitTest /\ [][NextTest]_vars

----------------------------------------------------------------------------
(* A caller whose simulator can fail *)

\* the pool constructed: <<genoms_count, genom_len>> and take_value
FailConfig == <<4, 1>>
FailFraction == <<1, 2>>

InitFail ==
    /\ n_genoms = FailConfig[1]
    /\ genom_len = FailConfig[2]
    /\ take = TakeOf(FailConfig[1], FailFraction)
    /\ genoms \in [1 .. FailConfig[1] -> RandomGenoms(FailConfig[2])]
    /\ shuffle_indices = IdentityIndices(FailConfig[1])
    /\ next_generation = <<>>
    /\ generation = 0
    /\ aborted = FALSE
    /\ InitHist
    /\ xin = <<>>
    /\ xout = <<>>
    /\ pc = "free"
    /\ round = 0

SimulateFails == DoSimulateFails /\ UNCHANGED <<crossVars, testVars>>

NextFail == Simulate \/ Select \/ SimulateFails

SpecFail == InitFail /\ [][NextFail]_vars

----------------------------------------------------------------------------
(* The claims *)

\* no genom of s scores less than the one after it
Descending(s) ==
    \A i \in 1 .. Len(s) - 1 : ~ScoreLess(s[i].scorer, s[i + 1].scorer)

\* C1: right after a completed simulate() every genom carries the score the simulator
\* gives its nucleotides, and the population is in non-increasing order of score.
C1_SortedAfterSimulate ==
    lastOp = "simulate" =>
        /\ \A i \in 1 .. Len(genoms) : genoms[i].scorer = Fitness(genoms[i])
        /\ Descending(genoms)

C1_Witness ==
    /\ lastOp = "simulate"
    /\ selects = 2
    /\ n_genoms = 4
    /\ ScoreLess(genoms[4].scorer, genoms[1].scorer)

\* the elite indices 0 .. take - 1
Elite == 0 .. take - 1

\* C2 as stated: every select() on a population just sorted by simulate() uses each of
\* the take > 0 elite indices as a crossover parent, whatever the elite fraction.
C2_EliteAlwaysParents ==
    [][(lastOp = "simulate" /\ lastOp' = "select" /\ take > 0) => Elite \subseteq parents']_vars

\* C2 amended: the same, for pools whose elite count is at most half the population.
C2_EliteParentsUpToHalf ==
    [][(lastOp = "simulate" /\ lastOp' = "select" /\ take > 0 /\ take <= HalfOf(n_genoms))
          => Elite \subseteq parents']_vars

C2_Witness ==
    /\ lastOp = "select"
    /\ simulated
    /\ selects = 2
    /\ n_genoms = 4
    /\ take = 2
    /\ Elite \subseteq parents

\* C3: in a pool of even size every genom of the population has exactly genom_len
\* nucleotides, in every state.
C3_LengthInvariant ==
    (~aborted /\ n_genoms % 2 = 0 /\ n_genoms >= 2) =>
        \A i \in 1 .. Len(genoms) : Len(genoms[i].nucleotides) = genom_len

C3_Witness ==
    /\ lastOp = "shift"
    /\ selects = 2
    /\ genom_len = 2
    /\ \A i \in 1 .. Len(genoms) : Len(genoms[i].nucleotides) = genom_len
    /\ \E i \in 1 .. Len(genoms) : genoms[i].nucleotides /= next_generation[i].nucleotides

\* C4: the population holds exactly n_genoms genoms and the staging buffer at most
\* n_genoms, in every state.
C4_BufferSizes ==
    ~aborted => (Len(genoms) = n_genoms /\ Len(next_generation) <= n_genoms)

C4_Witness ==
    /\ lastOp = "select"
    /\ selects = 2
    /\ Len(genoms) = n_genoms
    /\ Len(next_generation) = n_genoms

\* best() carries the simulator's score of its own nucleotides, and no genom of the
\* population has a greater one
BestIsBest ==
    /\ Best.scorer = Fitness(Best)
    /\ \A i \in 1 .. Len(genoms) : ~ScoreLess(Fitness(Best), Fitness(genoms[i]))

\* C5 as stated: once simulate() has run, best() is the best genom in every later
\* state, also after select() or shift() calls not yet followed by simulate().
C5_BestAlways == (simulated /\ ~aborted) => BestIsBest

\* C5 amended: best() is the best genom in every state in which no select() or
\* shift() has been called since the last completed simulate().
C5_BestWhileScored == (scored /\ ~aborted) => BestIsBest

C5_Witness ==
    /\ scored
    /\ lastOp = "reset"
    /\ selects = 1
    /\ n_genoms = 4
    /\ BestIsBest
    /\ \E i \in 1 .. Len(genoms) : ScoreLess(genoms[i].scorer, Best.scorer)

\* C6: crossover_inplace(a, b, out, 0) and crossover_inplace(b, a, out, len) leave the
\* same nucleotide sequence in out, for a commutative and for a non-commutative
\* nucleotide crossover.
C6_CrossoverBoundary ==
    \A x \in xout.ab, y \in xout.ba : x.nucleotides = y.nucleotides

C6_Witness ==
    /\ xout.ab /= {}
    /\ xout.ba /= {}
    /\ xin.kind = "sub"
    /\ Len(xin.a.nucleotides) = 2
    /\ Len(xin.out.nucleotides) = 1
    /\ NuclCrossover("sub", xin.a.nucleotides[1], xin.b.nucleotides[1])
          /= NuclCrossover("sub", xin.b.nucleotides[1], xin.a.nucleotides[1])

\* after genom_len consecutive shift(1) calls every genom has the nucleotides it had
\* before the first of them
ShiftRestores ==
    shiftRun = genom_len =>
        \A i \in 1 .. Len(genoms) : genoms[i].nucleotides = shiftBase[i]

\* a shift() step leaves every scorer and the generation counter alone, and a shift(1)
\* step moves the nucleotide at index (i + 1) mod len to index i (0-based)
ShiftStep ==
    lastOp' = "shift" =>
        /\ generation' = generation
        /\ Len(genoms') = Len(genoms)
        /\ \A g \in 1 .. Len(genoms) :
            /\ genoms'[g].scorer = genoms[g].scorer
            /\ Len(genoms'[g].nucleotides) = Len(genoms[g].nucleotides)
            /\ shiftRun' >= 1 =>
                \A i \in 0 .. genom_len - 1 :
                    genoms'[g].nucleotides[i + 1] =
                        genoms[g].nucleotides[((i + 1) % genom_len) + 1]

\* C7: shift(1) applied len times restores every genom of the population, each
\* shift(1) rotating one place to the left, and GenePool::shift leaves the scorers and
\* the generation counter unchanged.
C7_ShiftRoundTrip == []ShiftRestores /\ [][ShiftStep]_vars

C7_Witness ==
    /\ lastOp = "shift"
    /\ shiftRun = genom_len
    /\ genom_len = 3
    /\ simulated
    /\ genoms[1].nucleotides[1] /= genoms[1].nucleotides[2]
    /\ genoms[1].nucleotides = shiftBase[1]

GenerationStep ==
    /\ lastOp' = "simulate" => generation' = generation + 1
    /\ lastOp' \in {"select", "shift"} => generation' = generation
    /\ lastOp' = "reset" => (generation' = 0 /\ genoms' = genoms)

\* C9: generations() is the number of simulate() calls completed since construction or
\* the last reset(): simulate() adds one, select() and shift() leave it, reset() zeroes
\* it and leaves the population as it is.
C9_GenerationCounts ==
    [](~aborted => generation = completed) /\ [][GenerationStep]_vars

C9_Witness ==
    /\ lastOp = "simulate"
    /\ generation = 1
    /\ completed = 1
    /\ selects = 2
    /\ simulated

\* C10: select() does not go ahead on a pool on which simulate() has never run.
C10_SelectNeedsSimulate == (~aborted /\ selects > 0) => simulated

\* a failed simulate() scored the genoms before some position k and did nothing else
FailureStep ==
    lastOp' = "simulate_failed" =>
        /\ generation' = generation
        /\ completed' = completed
        /\ Len(genoms') = Len(genoms)
        /\ \E k \in 1 .. Len(genoms) :
            \A i \in 1 .. Len(genoms) :
                /\ genoms'[i].nucleotides = genoms[i].nucleotides
                /\ i < k => genoms'[i].scorer = Fitness(genoms[i])
                /\ i >= k => genoms'[i].scorer = genoms[i].scorer

\* C11: when the simulator fails on the k-th genom, simulate() stops there: the genoms
\* before position k carry their new scorers, those from k on their previous ones, the
\* population keeps its order (no sort) and the generation counter is not incremented.
C11_FailureStopsSimulate == [][FailureStep]_vars

C11_Witness ==
    /\ lastOp = "simulate_failed"
    /\ n_genoms = 4
    /\ selects = 1
    /\ generation = 1
    /\ genoms[1].scorer = Fitness(genoms[1])
    /\ genoms[2].scorer = Fitness(genoms[2])
    /\ genoms[3].scorer /= Fitness(genoms[3])
    /\ ScoreLess(genoms[1].scorer, genoms[2].scorer)

\* C12: every index select() hands to Genom::mutate is an index of the genom mutated,
\* for every value the shared distribution can return: no select() ends in the
\* out-of-bounds write, and after a select() no value of the distribution lies outside
\* the children it was drawn for.
C12_MutateIndexInBounds ==
    /\ lastOp /= "abort"
    /\ lastOp = "select" =>
          \A i \in 1 .. Len(genoms), n \in DistrValues : ~MutateOutOfBounds(genoms[i], n)

\* C13: in every select() call, the first as well as any later one, the population
\* indices used as crossover parents are exactly half = N/2 distinct ones and include
\* every elite index (stated for pools whose elite fits in the mating pool).
C13_HalfDistinctParents ==
    [][(lastOp' = "select" /\ take <= HalfOf(n_genoms)) =>
          /\ Cardinality(parents') = HalfOf(n_genoms)
          /\ Elite \subseteq parents']_vars

\* the number of entries of the sequence s that satisfy Test
Count(s, Test(_)) == Cardinality({j \in 1 .. Len(s) : Test(s[j])})

\* C14: in a select() call on a pool of even size every slot of the next generation is
\* written by exactly one crossover and mutate is called on it exactly once, and the
\* index entry in each slot i of [0, half) is the first parent of exactly two children,
\* those in slots i and i + half: N children are produced.
C14_EveryChildOnce ==
    lastOp = "select" =>
        LET half == HalfOf(n_genoms) IN
        /\ Len(genoms) = n_genoms
        /\ Len(calls.crossover) = n_genoms
        /\ \A c \in 1 .. n_genoms :
            /\ Count(calls.crossover, LAMBDA x : x.child = c) = 1
            /\ Count(calls.mutate, LAMBDA x : x = c) = 1
        /\ \A i \in 1 .. half :
            /\ Count(calls.crossover, LAMBDA x : x.slot = i) = 2
            /\ \A j \in 1 .. Len(calls.crossover) :
                  calls.crossover[j].slot = i =>
                      /\ calls.crossover[j].child \in {i, i + half}
                      /\ calls.crossover[j].first = shuffle_indices[i]

C14_Witness ==
    /\ lastOp = "select"
    /\ selects = 2
    /\ n_genoms = 4
    /\ calls.crossover[2].child = 2
    /\ calls.crossover[4].child = 4
    /\ calls.crossover[2].slot = 2
    /\ calls.crossover[4].slot = 2
    /\ calls.mutate = <<1, 2, 3, 4>>

\* the second parents of the first (pass = 0) or second (pass = 1) crossover pass
SecondParents(pass) ==
    [i \in 1 .. HalfOf(n_genoms) |-> calls.crossover[i + pass * HalfOf(n_genoms)].second]

\* t holds the entries of s, each as often, in some order
Rearranged(s, t) ==
    /\ Len(s) = Len(t)
    /\ \E p \in Permutations(1 .. Len(s)) : \A i \in 1 .. Len(s) : t[i] = s[p[i]]

\* C15 as stated: in a select() call the second parent of child i + half is another
\* population member than the second parent of child i, for every i of [0, half).
C15_DifferentPartners ==
    lastOp = "select" =>
        \A i \in 1 .. HalfOf(n_genoms) : SecondParents(0)[i] /= SecondParents(1)[i]

\* C15 amended: in each crossover pass of a select() call the second parents are the
\* mating-pool members, the index entries of slots [0, half), in some order.
C15_PartnersFromMatingPool ==
    lastOp = "select" =>
        /\ Rearranged(SubSeq(shuffle_indices, 1, HalfOf(n_genoms)), SecondParents(0))
        /\ Rearranged(SubSeq(shuffle_indices, 1, HalfOf(n_genoms)), SecondParents(1))

C15_Witness ==
    /\ lastOp = "select"
    /\ n_genoms = 4
    /\ simulated
    /\ shuffle_indices[1] /= shuffle_indices[2]
    /\ SecondParents(0)[1] = SecondParents(1)[1]
    /\ SecondParents(0)[2] = SecondParents(1)[2]

\* the child c is what crossover_inplace at some point n and then a mutation, landed
\* or missed, make of the population members a and b
ChildOf(c, a, b) ==
    \E n \in DistrValues :
        LET x == CrossoverInplace("avg", a, b, c, n).nucleotides IN
        /\ Len(c.nucleotides) = Len(x)
        /\ \/ c.nucleotides = x
           \/ \E m \in 1 .. Len(x), d \in Dist : c.nucleotides = [x EXCEPT ![m] = @ + d]

\* a select() step leaves the old population, untouched, in the staging buffer and N
\* children of its members in the population
SelectStep ==
    lastOp' = "select" =>
        /\ next_generation' = genoms
        /\ Len(genoms') = n_genoms
        /\ \A j \in 1 .. Len(calls'.crossover) :
              ChildOf(genoms'[calls'.crossover[j].child],
                      genoms[calls'.crossover[j].first + 1],
                      genoms[calls'.crossover[j].second + 1])

\* C16: select() does not modify the parent generation: after the call the staging
\* buffer holds the genoms of the population before it, with their nucleotides,
\* scorers and order, and the population holds the N children produced.
C16_ParentsUntouched == [][SelectStep]_vars

C16_Witness ==
    /\ lastOp = "select"
    /\ selects = 2
    /\ n_genoms = 4
    /\ \A i \in 1 .. Len(next_generation) :
          next_generation[i].scorer = Fitness(next_generation[i])
    /\ Descending(next_generation)
    /\ \E i \in 1 .. Len(genoms) : genoms[i].nucleotides /= next_generation[i].nucleotides

\* the scorer held by staging slot i when select() is called (a slot the resize of
\* line 253 adds holds the default scorer)
StagedScorer(i) == ResizeGenoms(next_generation, n_genoms)[i].scorer

\* C17 as stated: the child in slot i carries the scorer staging slot i held before
\* the call, so after a select() no genom's stored score is the fitness of its own
\* nucleotides.
C17_ScoreNeverOwn ==
    /\ [][lastOp' = "select" =>
              \A i \in 1 .. Len(genoms') : genoms'[i].scorer = StagedScorer(i)]_vars
    /\ [](lastOp = "select" =>
              \A i \in 1 .. Len(genoms) : genoms[i].scorer /= Fitness(genoms[i]))

\* C17 amended: crossover and mutation write no scorer: the child in slot i carries the
\* scorer staging slot i held before the call, the default scorer on the first
\* select().
C17_ScorerCarriedOver ==
    [][lastOp' = "select" =>
          /\ \A i \in 1 .. Len(genoms') : genoms'[i].scorer = StagedScorer(i)
          /\ selects = 0 =>
                \A i \in 1 .. Len(genoms') : genoms'[i].scorer = DefaultScorer]_vars

C17_Witness ==
    /\ lastOp = "select"
    /\ selects = 2
    /\ n_genoms = 4
    /\ completed = 2
    /\ genoms[1].scorer = Fitness(genoms[1])
    /\ genoms[2].scorer /= Fitness(genoms[2])
    /\ genoms[2].scorer /= DefaultScorer

\* C18: in every state of a pool the index array has exactly N entries, each a
\* population index of [0, N), so every genoms[idx[i]] of select() is in bounds.
C18_IndicesValid ==
    ~aborted =>
        /\ Len(shuffle_indices) = n_genoms
        /\ \A i \in 1 .. Len(shuffle_indices) : shuffle_indices[i] \in 0 .. n_genoms - 1

C18_Witness ==
    /\ lastOp = "select"
    /\ selects = 2
    /\ n_genoms = 4
    /\ Len(shuffle_indices) = 4
    /\ \A i \in 1 .. 4 : shuffle_indices[i] = 0

====
